---- MODULE Spec2Model ----
(***************************************************************************)
(* A model of twittersphere's bulk ingestion pipeline (twittersphere/db.py):*)
(* insert_pages streams raw pages, batches them, decodes the batches in a  *)
(* process pool, inserts the decoded bundles into an in-memory staging     *)
(* database and flushes staging databases into the on-disk target.         *)
(*                                                                         *)
(* Sizes are counted in units: a raw page's length in units of 2^19 bytes, *)
(* a database's size in SQLite pages.                                      *)
(***************************************************************************)
EXTENDS Integers, Sequences, FiniteSets, TLC

\* ------------------------------------------------------------------ bounds
\* Longest input stream explored.
MaxPages == 3

\* Largest worker count explored (--n-cpus has IntRange(min=1)).
MaxCpus == 1

\* A staging limit no explored run reaches (a single flush at the end).
Unbounded == 1000

\* ------------------------------------------------------- program constants
CURRENT_SCHEMA_VERSION == 12

\* 2**20 bytes, in units of 2**19 bytes.
min_batch_size == 2

None == "None"

\* ------------------------------------------------------------ raw pages
TWARC_VERSION == "2.9"

User(id, name) == [id |-> id, name |-> name]

Tweet(id, author, tags, urls) ==
    [id |-> id, author_id |-> author, hashtags |-> tags, urls |-> urls]

Place(id, name) == [id |-> id, name |-> name]

RawPage(at, url, kind, data, iusers, itweets, iplaces, len) ==
    [twarc |-> [version |-> TWARC_VERSION, retrieved_at |-> at, url |-> url],
     kind |-> kind,
     data |-> data,
     includes |-> [users |-> iusers, tweets |-> itweets, places |-> iplaces],
     len |-> len]

\* A search page: tweet 1 by user 1, quoting tweet 2 by user 2.
PageSearch ==
    RawPage(1, "search", "tweets",
            <<Tweet(1, 1, {"h"}, {"x"})>>,
            <<User(1, "n1"), User(2, "m")>>,
            <<Tweet(2, 2, {}, {})>>,
            <<Place(1, "old")>>, 2)

\* The same search retrieved later: user 1 and place 1 were renamed since.
PageSearchLater ==
    RawPage(2, "search", "tweets",
            <<Tweet(1, 1, {"h"}, {"x"})>>,
            <<User(1, "n2")>>,
            <<>>,
            <<Place(1, "new")>>, 2)

\* A page of hydrated profiles (the payload is a list of users).
PageProfiles ==
    RawPage(1, "users", "users",
            <<User(2, "m")>>, <<>>, <<>>, <<>>, 1)

\* A page whose payload has none of the shapes PAGE_SPEC knows.
PageUnknown ==
    RawPage(2, "users", "unknown", <<>>, <<>>, <<>>, <<>>, 2)

PageSet == {PageSearch, PageSearchLater, PageProfiles, PageUnknown}

\* A page of a user's timeline: tweet 3 by user 2.
PageTimeline ==
    RawPage(3, "timeline", "tweets",
            <<Tweet(3, 2, {}, {})>>,
            <<User(2, "m")>>, <<>>, <<>>, 2)

\* Every page of the model.
Pages == PageSet \cup {PageTimeline}

\* ------------------------------------------------------------ process.py
METADATA_SPEC(twarc) ==
    [twarc_version |-> twarc.version,
     retrieved_at |-> twarc.retrieved_at,
     twitter_url |-> twarc.url]

\* glom's Coalesce over the three payload shapes has no default: a page that
\* matches none of them raises.
Decodable(raw_page) == raw_page.kind \in {"users", "tweets"}

PAGE_SPECIncludesAsData(raw_page) ==
    [metadata |-> METADATA_SPEC(raw_page.twarc),
     data |-> [users |-> (IF raw_page.kind = "users" THEN raw_page.data ELSE <<>>)
                            \o raw_page.includes.users,
               tweets |-> (IF raw_page.kind = "tweets" THEN raw_page.data ELSE <<>>)
                            \o raw_page.includes.tweets],
     includes |-> raw_page.includes]

PAGE_SPEC(raw_page) ==
    [metadata |-> METADATA_SPEC(raw_page.twarc),
     data |-> [users |-> IF raw_page.kind = "users" THEN raw_page.data ELSE <<>>,
               tweets |-> IF raw_page.kind = "tweets" THEN raw_page.data ELSE <<>>],
     includes |-> raw_page.includes]

\* process_pages: the decoded pages in order, or the exception of the first
\* page that cannot be decoded.
process_pages(pages) ==
    IF \A i \in 1..Len(pages) : Decodable(pages[i])
    THEN [ok |-> TRUE, result |-> [i \in 1..Len(pages) |-> PAGE_SPEC(pages[i])]]
    ELSE [ok |-> FALSE, result |-> <<>>]

\* ------------------------------------------------------------ _schema.py
\* The tables of the model, in the order flush_db walks table_keys.
table_keys ==
    <<"collection_context", "user_at_time", "directly_collected_user",
      "tweet_at_time", "directly_collected_tweet", "tweet_hashtag",
      "tweet_url", "place", "metadata">>

VersionRow(v) == [key |-> "twittersphere_schema_version", value |-> v]

\* A store holding the schema and no rows but the version stamp.
SCHEMA_STATEMENTS ==
    [collection_context |-> {},
     user_at_time |-> {},
     directly_collected_user |-> {},
     tweet_at_time |-> {},
     directly_collected_tweet |-> {},
     tweet_hashtag |-> {},
     tweet_url |-> {},
     place |-> {},
     user_matching_ruleset |-> {},
     user_ruleset_ngram_count |-> {},
     metadata |-> {VersionRow(CURRENT_SCHEMA_VERSION)},
     installed |-> TRUE,
     journal_mode |-> "wal"]

\* The tables the create table statements of SCHEMA_STATEMENTS create.
CreatedTables == (DOMAIN SCHEMA_STATEMENTS) \ {"installed", "journal_mode"}

\* A path at which no database has been created yet: no table exists (the
\* select on metadata fails), and the journal mode is SQLite's default.
NoStore ==
    [SCHEMA_STATEMENTS EXCEPT !.metadata = {}, !.installed = FALSE,
                              !.journal_mode = "delete"]

\* Keys in which a user and a tweet have one row, whenever observed.
PrimaryKeyById(table, row) ==
    CASE table = "collection_context" -> <<row.context_id>>
      [] table = "user_at_time" -> <<row.user_id>>
      [] table = "directly_collected_user" -> <<row.user_id>>
      [] table = "tweet_at_time" -> <<row.tweet_id>>
      [] table = "directly_collected_tweet" -> <<row.tweet_id>>
      [] table = "tweet_hashtag" -> <<row.tweet_id, row.retrieved_at, row.hashtag>>
      [] table = "tweet_url" -> <<row.tweet_id, row.retrieved_at, row.url>>
      [] table = "place" -> <<row.place_id>>
      [] table = "metadata" -> <<row.key>>

\* Keys in which the observation tables are keyed by the collection context
\* as well.
PrimaryKeyWithContext(table, row) ==
    CASE table = "collection_context" -> <<row.context_id>>
      [] table = "user_at_time" -> <<row.user_id, row.retrieved_at, row.context_id>>
      [] table = "directly_collected_user" -> <<row.user_id>>
      [] table = "tweet_at_time" -> <<row.tweet_id, row.retrieved_at, row.context_id>>
      [] table = "directly_collected_tweet" -> <<row.tweet_id>>
      [] table = "tweet_hashtag" -> <<row.tweet_id, row.retrieved_at, row.hashtag>>
      [] table = "tweet_url" -> <<row.tweet_id, row.retrieved_at, row.url>>
      [] table = "place" -> <<row.place_id>>
      [] table = "metadata" -> <<row.key>>

\* The primary key of a row of each table (and, for collection_context, the
\* unique constraint beside it).
PrimaryKey(table, row) ==
    CASE table = "collection_context" -> <<row.context_id>>
      [] table = "user_at_time" -> <<row.user_id, row.retrieved_at>>
      [] table = "directly_collected_user" -> <<row.user_id>>
      [] table = "tweet_at_time" -> <<row.tweet_id, row.retrieved_at>>
      [] table = "directly_collected_tweet" -> <<row.tweet_id>>
      [] table = "tweet_hashtag" -> <<row.tweet_id, row.retrieved_at, row.hashtag>>
      [] table = "tweet_url" -> <<row.tweet_id, row.retrieved_at, row.url>>
      [] table = "place" -> <<row.place_id>>
      [] table = "user_matching_ruleset" -> <<row.ruleset_name, row.user_id>>
      [] table = "metadata" -> <<row.key>>

ContextOf(row) == <<row.retrieved_at, row.twitter_url, row.twarc_version>>

\* Whether inserting `row` would violate a constraint of `table` given `rows`.
Conflicts(table, rows, row) ==
    \E r \in rows :
        \/ PrimaryKey(table, r) = PrimaryKey(table, row)
        \/ table = "collection_context" /\ ContextOf(r) = ContextOf(row)

\* insert or ignore of a list of rows, in list order.
RECURSIVE InsertOrIgnore(_, _, _)
InsertOrIgnore(table, rows, new) ==
    IF new = <<>> THEN rows
    ELSE InsertOrIgnore(table,
                        IF Conflicts(table, rows, Head(new)) THEN rows
                        ELSE rows \cup {Head(new)},
                        Tail(new))

\* ------------------------------------------------------------------ db.py
Max(S) == CHOOSE x \in S : \A y \in S : y <= x

\* The rowid SQLite gives a new collection_context row: one more than the
\* largest in the table.
NextContextId(rows) ==
    IF rows = {} THEN 1 ELSE Max({r.context_id : r \in rows}) + 1

\* The select of db.py:202-212.
LookupContextId(db, metadata) ==
    (CHOOSE r \in db.collection_context :
        ContextOf(r) = <<metadata.retrieved_at, metadata.twitter_url,
                         metadata.twarc_version>>).context_id

UserRow(user, metadata, context_id) ==
    [user_id |-> user.id, context_id |-> context_id,
     retrieved_at |-> metadata.retrieved_at, name |-> user.name]

TweetRow(tweet, metadata, context_id) ==
    [tweet_id |-> tweet.id, context_id |-> context_id,
     user_id |-> tweet.author_id, retrieved_at |-> metadata.retrieved_at]

SetToSeq(S) == CHOOSE s \in [1..Cardinality(S) -> S] : {s[i] : i \in DOMAIN s} = S

\* An insert_processed that writes the hashtags of the tweets before the tweets.
StatementsHashtagsFirst ==
    <<"collection_context", "user_at_time", "directly_collected_user",
      "tweet_hashtag", "tweet_at_time", "tweet_url",
      "directly_collected_tweet", "place">>

\* The model's statements of insert_processed, in the order it executes them.
Statements ==
    <<"collection_context", "user_at_time", "directly_collected_user",
      "tweet_at_time", "tweet_hashtag", "tweet_url",
      "directly_collected_tweet", "place">>

\* The effect of one statement of insert_processed on the store.
Statement(table, db, processed) ==
    LET metadata == processed.metadata
        data == processed.data
        includes == processed.includes
        users == data.users \o includes.users
        tweets == data.tweets \o includes.tweets
        tweetset == {tweets[i] : i \in 1..Len(tweets)}
        ins(rows) == [db EXCEPT ![table] = InsertOrIgnore(table, db[table], rows)]
        uid(u) == [user_id |-> u.id]
        tid(t) == [tweet_id |-> t.id]
        place(p) == [place_id |-> p.id, name |-> p.name]
    IN CASE table = "collection_context" ->
              ins(<<[context_id |-> NextContextId(db.collection_context),
                     retrieved_at |-> metadata.retrieved_at,
                     twitter_url |-> metadata.twitter_url,
                     twarc_version |-> metadata.twarc_version]>>)
         [] table = "user_at_time" ->
              LET context_id == LookupContextId(db, metadata)
                  row(u) == UserRow(u, metadata, context_id)
              IN ins([i \in 1..Len(users) |-> row(users[i])])
         [] table = "directly_collected_user" -> ins([i \in 1..Len(data.users) |-> uid(data.users[i])])
         [] table = "tweet_at_time" ->
              LET context_id == LookupContextId(db, metadata)
                  row(t) == TweetRow(t, metadata, context_id)
              IN ins([i \in 1..Len(tweets) |-> row(tweets[i])])
         [] table = "tweet_hashtag" ->
              ins(SetToSeq(UNION {{[tweet_id |-> t.id,
                                    retrieved_at |-> metadata.retrieved_at,
                                    hashtag |-> h] : h \in t.hashtags} :
                                  t \in tweetset}))
         [] table = "tweet_url" ->
              \* The tuple (url, retrieved_at, tweet id) is bound by position to
              \* the columns (tweet_id, retrieved_at, url).
              ins(SetToSeq(UNION {{[tweet_id |-> u,
                                    retrieved_at |-> metadata.retrieved_at,
                                    url |-> t.id] : u \in t.urls} :
                                  t \in tweetset}))
         [] table = "directly_collected_tweet" -> ins([i \in 1..Len(data.tweets) |-> tid(data.tweets[i])])
         [] table = "place" -> ins([i \in 1..Len(includes.places) |-> place(includes.places[i])])

\* The store after the first n statements of insert_processed.
RECURSIVE InsertStatements(_, _, _)
InsertStatements(db, processed, n) ==
    IF n = 0 THEN db
    ELSE Statement(Statements[n], InsertStatements(db, processed, n - 1), processed)

\* insert_processed when no statement raises.
insert_processed(db, processed) ==
    InsertStatements(db, processed, Len(Statements))

\* The sum of the row counts of all tables.
RECURSIVE RowCount(_, _)
RowCount(db, n) ==
    IF n = 0 THEN 0 ELSE Cardinality(db[table_keys[n]]) + RowCount(db, n - 1)

\* page_count * page_size (db.py:137-145), in pages: every table has its root
\* page, and the model gives every row one page.
DbSize(db) == Len(table_keys) + RowCount(db, Len(table_keys))

\* The rows the select of db.py:31-37 returns.
VersionRows(store) ==
    {r \in store.metadata : r.key = "twittersphere_schema_version"}

\* db.py:30-38: what reading the stored version raises: OperationalError when
\* there is no metadata table, IndexError when the table is there and the
\* select returns no row ([0][0] of an empty list), None when it succeeds.
SelectRaises(store) ==
    IF ~store.installed THEN "OperationalError"
    ELSE IF VersionRows(store) = {} THEN "IndexError"
    ELSE None

\* db.py:30-41: the stored schema version, 0 when OperationalError is caught.
SchemaVersion(store) ==
    IF SelectRaises(store) = None
    THEN (CHOOSE r \in VersionRows(store) : TRUE).value
    ELSE 0

\* db.py:43-50: the journal mode (an in-memory database keeps its own), the
\* tables that do not exist yet, and the version stamp unless there is one.
InstallSchema(store) ==
    [store EXCEPT !.installed = TRUE,
                  !.journal_mode = IF @ = "memory" THEN @ ELSE "wal",
                  !.metadata = InsertOrIgnore("metadata", @,
                                   <<VersionRow(CURRENT_SCHEMA_VERSION)>>)]

\* An ensure_db that sets the journal mode before it looks at the version.
ensure_dbPragmaFirst(store) ==
    LET schema_version == SchemaVersion(store)
        wal == [store EXCEPT !.journal_mode = IF @ = "memory" THEN @ ELSE "wal"]
    IN IF SelectRaises(store) = "IndexError"
       THEN [raised |-> "IndexError", store |-> wal]
       ELSE IF schema_version = 0
       THEN [raised |-> None, store |-> InstallSchema(store)]
       ELSE IF schema_version # CURRENT_SCHEMA_VERSION
       THEN [raised |-> "SchemaVersionError", store |-> wal]
       ELSE [raised |-> None, store |-> wal]

\* ensure_db: the store at the path afterwards, and the exception raised
\* (None when it returns the connection).
ensure_db(store) ==
    LET schema_version == SchemaVersion(store)
    IN IF SelectRaises(store) = "IndexError"
       THEN [raised |-> "IndexError", store |-> store]
       ELSE IF schema_version = 0
       THEN [raised |-> None, store |-> InstallSchema(store)]
       ELSE IF schema_version # CURRENT_SCHEMA_VERSION
       THEN [raised |-> "SchemaVersionError", store |-> store]
       ELSE [raised |-> None, store |-> store]

\* ensure_db(":memory:"): a new in-memory database.
MemoryDb == ensure_db([NoStore EXCEPT !.journal_mode = "memory"]).store

\* A flush that replaces the rows of the target that a staging row conflicts
\* with (insert or replace).
RECURSIVE FlushTablesReplace(_, _, _)
FlushTablesReplace(staging, store, n) ==
    IF n = 0 THEN store
    ELSE LET table == table_keys[n]
             flushed == FlushTablesReplace(staging, store, n - 1)
         IN [flushed EXCEPT ![table] =
                {r \in @ : ~Conflicts(table, staging[table], r)} \cup staging[table]]

\* flush_db: for every table of table_keys, insert or ignore the rows of the
\* staging database into the target.  The rows of one staging table do not
\* conflict with each other, so each is kept or ignored by the target's rows
\* alone, whatever the order by.
RECURSIVE FlushTables(_, _, _)
FlushTables(staging, store, n) ==
    IF n = 0 THEN store
    ELSE LET table == table_keys[n]
             flushed == FlushTables(staging, store, n - 1)
         IN [flushed EXCEPT ![table] =
                @ \cup {r \in staging[table] : ~Conflicts(table, @, r)}]

\* A merge that is not one transaction and is cut off: of the tables of the
\* posts, the hashtags are committed and the posts are not.
flush_dbTorn(staging, store) ==
    [FlushTables(staging, store, Len(table_keys)) EXCEPT
        !.tweet_at_time = store.tweet_at_time]

flush_db(staging, store) == FlushTables(staging, store, Len(table_keys))

\* ---------------------------------------------------------------- state
VARIABLES
    db_path,                \* the database at db_path (the target store)
    raw_pages,              \* the pages the input stream has yielded
    pos,                    \* how many of them this run has consumed
    n_cpus,                 \* insert_pages' parameter
    in_memory_max_db_size,  \* insert_pages' parameter, in pages
    batch, batch_size,      \* the batch being accumulated
    futures,                \* the futures not yet drained
    submitted,              \* how many batches were submitted (future identity)
    done,                   \* the futures cf.wait returned, not yet inserted
    db_conn,                \* the open staging generation
    target,                 \* the generation of the flush thread the writer holds
    threads,                \* the flush threads started, each with its generation
    source,                 \* the pages the input stream can yield
    stream_limit,           \* how many pages the input stream yields at most
    insert_faults,          \* whether an insert into staging can raise
    pc,                     \* where the writer (the thread of insert_pages) is
    run,                    \* 1: the first ingestion, 2: the repeated one
    error,                  \* the exception insert_pages raised
    applied,                \* how often each page was inserted into staging
    merged,                 \* the generations whose merge committed
    flush_failed,           \* the generations whose merge raised
    first_run               \* the target store as the first run left it

vars == <<db_path, raw_pages, pos, n_cpus, in_memory_max_db_size, batch,
          batch_size, futures, submitted, done, db_conn, target, threads,
          source, stream_limit, insert_faults, pc, run, error, applied, merged,
          flush_failed, first_run>>

\* What a run is given: the parameters of insert_pages and its environment.
params == <<n_cpus, in_memory_max_db_size, source, stream_limit, insert_faults>>

\* target = None (db.py:107)
NoThread == 0

\* A connection as sqlite3.connect returns it (db.py:28): no transaction is
\* open.  gen counts the staging databases of one insert_pages.
Connection(gen, db) == [gen |-> gen, db |-> db, in_transaction |-> FALSE]

\* db_conn.execute("begin") (db.py:116, 161).
BeginTransaction(conn) == [conn EXCEPT !.in_transaction = TRUE]

\* A commit that is left for whoever gets the connection next.
CommitTransactionLate(conn) == conn

\* db_conn.execute("commit") (db.py:148, 170).
CommitTransaction(conn) == [conn EXCEPT !.in_transaction = FALSE]

\* threading.Thread(target=flush_db, args=(db_conn, db_path)), started: the
\* thread has the connection as the writer left it.
Thread(conn) ==
    [gen |-> conn.gen, db |-> conn.db, in_transaction |-> conn.in_transaction,
     state |-> "running"]

\* A join that does not wait for the thread to end.
JoinedAtOnce(thread, started) == TRUE

\* A join that returns only when the thread has ended without an exception.
JoinedCleanly(thread, started) ==
    \A t \in started : t.gen = thread => t.state = "finished"

\* target.join() returns: there is no thread to wait for, or it has ended
\* (an exception that ended it is not raised again by join).
Joined(thread, started) ==
    \A t \in started : t.gen = thread => t.state # "running"

NoError == [kind |-> None, gen |-> 0, before |-> NoStore]

\* A target store stamped by another version of the schema.
OtherVersionStore ==
    [SCHEMA_STATEMENTS EXCEPT !.metadata = {VersionRow(CURRENT_SCHEMA_VERSION - 1)}]

\* The staging limits explored: one that a decoded search page reaches, and
\* one nothing reaches.
SmallLimit == 15

Init ==
    /\ db_path \in {NoStore, OtherVersionStore}
    /\ raw_pages = <<>>
    /\ pos = 0
    /\ n_cpus \in 1..MaxCpus
    /\ in_memory_max_db_size \in {SmallLimit, Unbounded}
    /\ batch = <<>>
    /\ batch_size = 0
    /\ futures = {}
    /\ submitted = 0
    /\ done = {}
    /\ db_conn = Connection(0, NoStore)
    /\ target = NoThread
    /\ threads = {}
    /\ source = PageSet
    /\ stream_limit = MaxPages
    /\ insert_faults = TRUE
    /\ pc = "start"
    /\ run = 1
    /\ error = NoError
    /\ applied = [p \in Pages |-> 0]
    /\ merged = {}
    /\ flush_failed = {}
    /\ first_run = NoStore

\* -------------------------------------------------------------- insert_pages
Finished(fs) == {f \in fs : f.state = "finished"}

\* pool.submit(process.process_pages, batch)
Submit(fs, n, pages) == fs \cup {[id |-> n + 1, batch |-> pages, state |-> "pending"]}

\* A writer that lets one more batch in before it drains.
MustDrainLate(fs) == Cardinality(fs) > n_cpus + 2

\* db.py:128: the writer drains before it reads on.
MustDrain(fs) == Cardinality(fs) > n_cpus + 1

\* db.py:147
MustSeal(db) == DbSize(db) >= in_memory_max_db_size

\* The inserts of `for result in results_to_insert: insert_processed(...)`
\* when statement k of result i raises (i = 0: none raises): the staging
\* database afterwards, the database as it was before result i, and the
\* number of results inserted in full.
RECURSIVE InsertResults(_, _, _, _, _)
InsertResults(db, results, j, i, k) ==
    IF j > Len(results)
    THEN [db |-> db, raised |-> FALSE, before |-> db, inserted |-> Len(results)]
    ELSE IF j = i
    THEN [db |-> InsertStatements(db, results[j], k - 1), raised |-> TRUE,
          before |-> db, inserted |-> j - 1]
    ELSE InsertResults(insert_processed(db, results[j]), results, j + 1, i, k)

\* `applied` after the first n pages of a batch were inserted.
Count(counts, pages, n) ==
    [p \in Pages |->
        counts[p] + Cardinality({j \in 1..n : pages[j] = p})]

\* The positions at which an insert may raise, for a batch's results.
FailPoints(results) ==
    {<<0, 1>>} \cup IF insert_faults
                    THEN (1..Len(results)) \X (1..Len(Statements))
                    ELSE {}

\* An insert_pages that creates the first staging generation before it
\* checks the target.
StartStagingFirst ==
    /\ pc = "start"
    /\ db_conn' = BeginTransaction(Connection(1, MemoryDb))
    /\ LET check_db == ensure_db(db_path)
       IN IF check_db.raised # None
          THEN /\ pc' = "raised"
               /\ error' = [NoError EXCEPT !.kind = "schema"]
               /\ UNCHANGED db_path
          ELSE /\ pc' = "loop"
               /\ db_path' = check_db.store
               /\ UNCHANGED error
    /\ UNCHANGED <<raw_pages, pos, params, batch, batch_size, futures, submitted,
                   done, target, threads, run, applied, merged, flush_failed,
                   first_run>>

\* db.py:102-105,116: the schema check of the target, then the first staging
\* generation.
Start ==
    /\ pc = "start"
    /\ LET check_db == ensure_db(db_path)
       IN IF check_db.raised # None
          THEN /\ pc' = "raised"
               /\ error' = [NoError EXCEPT !.kind = "schema"]
               /\ UNCHANGED <<db_path, db_conn>>
          ELSE /\ pc' = "loop"
               /\ db_path' = check_db.store
               /\ db_conn' = BeginTransaction(Connection(1, MemoryDb))
               /\ UNCHANGED error
    /\ UNCHANGED <<raw_pages, pos, params, batch, batch_size, futures, submitted,
                   done, target, threads, run, applied, merged, flush_failed, first_run>>

\* A loop that dispatches the batch only once it is over the threshold.
NextPageOver(raw_page) ==
    /\ pc = "loop"
    /\ IF run = 1
       THEN /\ Len(raw_pages) < stream_limit
            /\ raw_page \in source
            /\ raw_pages' = Append(raw_pages, raw_page)
       ELSE /\ pos < Len(raw_pages)
            /\ raw_page = raw_pages[pos + 1]
            /\ UNCHANGED raw_pages
    /\ pos' = pos + 1
    /\ LET full == batch_size + raw_page.len > min_batch_size
       IN /\ batch' = IF full THEN <<>> ELSE Append(batch, raw_page)
          /\ batch_size' = IF full THEN 0 ELSE batch_size + raw_page.len
          /\ futures' = IF full
                        THEN Submit(futures, submitted, Append(batch, raw_page))
                        ELSE futures
          /\ submitted' = IF full THEN submitted + 1 ELSE submitted
    /\ pc' = IF MustDrain(futures') THEN "wait" ELSE "loop"
    /\ UNCHANGED <<db_path, params, done, db_conn, target, threads, run, error, applied,
                   merged, flush_failed, first_run>>

\* db.py:118-128: one iteration of the loop over raw_pages, up to the drain.
NextPage(raw_page) ==
    /\ pc = "loop"
    /\ IF run = 1
       THEN /\ Len(raw_pages) < stream_limit
            /\ raw_page \in source
            /\ raw_pages' = Append(raw_pages, raw_page)
       ELSE /\ pos < Len(raw_pages)
            /\ raw_page = raw_pages[pos + 1]
            /\ UNCHANGED raw_pages
    /\ pos' = pos + 1
    /\ LET full == batch_size + raw_page.len >= min_batch_size
       IN /\ batch' = IF full THEN <<>> ELSE Append(batch, raw_page)
          /\ batch_size' = IF full THEN 0 ELSE batch_size + raw_page.len
          /\ futures' = IF full
                        THEN Submit(futures, submitted, Append(batch, raw_page))
                        ELSE futures
          /\ submitted' = IF full THEN submitted + 1 ELSE submitted
    /\ pc' = IF MustDrain(futures') THEN "wait" ELSE "loop"
    /\ UNCHANGED <<db_path, params, done, db_conn, target, threads, run, error, applied,
                   merged, flush_failed, first_run>>

\* A worker process finishes a batch.  The pool runs n_cpus batches at a time
\* and starts them in the order of submission.
Complete(f) ==
    /\ pc \notin {"returned", "raised"}
    /\ f \in futures
    /\ f.state = "pending"
    /\ Cardinality({g \in futures : g.state = "pending" /\ g.id < f.id}) < n_cpus
    /\ futures' = (futures \ {f}) \cup {[f EXCEPT !.state = "finished"]}
    /\ UNCHANGED <<db_path, raw_pages, pos, params, batch, batch_size, submitted,
                   done, db_conn, target, threads, pc, run, error, applied, merged,
                   flush_failed, first_run>>

\* db.py:129: cf.wait returns once a future has finished, with all that have.
Wait ==
    /\ pc = "wait"
    /\ Finished(futures) # {}
    /\ done' = Finished(futures)
    /\ futures' = futures \ Finished(futures)
    /\ pc' = "drain"
    /\ UNCHANGED <<db_path, raw_pages, pos, params, batch, batch_size, submitted,
                   db_conn, target, threads, run, error, applied, merged, flush_failed,
                   first_run>>

\* A writer that skips a batch whose decoding raised and carries on.
DrainSkipping(f, at, after) ==
    LET results_to_insert == process_pages(f.batch)
        ins == InsertResults(db_conn.db, results_to_insert.result, 1, at[1], at[2])
    IN IF ~results_to_insert.ok
       THEN /\ at = <<0, 1>>
            /\ UNCHANGED <<db_conn, applied, error>>
            /\ pc' = after
       ELSE /\ at \in FailPoints(results_to_insert.result)
            /\ db_conn' = [db_conn EXCEPT !.db = ins.db]
            /\ applied' = Count(applied, f.batch, ins.inserted)
            /\ IF ins.raised
               THEN /\ pc' = "raised"
                    /\ error' = [kind |-> "insert", gen |-> db_conn.gen,
                                 before |-> ins.before]
               ELSE /\ pc' = after
                    /\ UNCHANGED error

\* f.result() and the inserts of its results into the open generation; what
\* the writer does next is `after` unless an exception ends insert_pages.
Drain(f, at, after) ==
    LET results_to_insert == process_pages(f.batch)
        ins == InsertResults(db_conn.db, results_to_insert.result, 1, at[1], at[2])
    IN IF ~results_to_insert.ok
       THEN /\ at = <<0, 1>>
            /\ pc' = "raised"
            /\ error' = [kind |-> "decode", gen |-> db_conn.gen, before |-> db_conn.db]
            /\ UNCHANGED <<db_conn, applied>>
       ELSE /\ at \in FailPoints(results_to_insert.result)
            /\ db_conn' = [db_conn EXCEPT !.db = ins.db]
            /\ applied' = Count(applied, f.batch, ins.inserted)
            /\ IF ins.raised
               THEN /\ pc' = "raised"
                    /\ error' = [kind |-> "insert", gen |-> db_conn.gen,
                                 before |-> ins.before]
               ELSE /\ pc' = after
                    /\ UNCHANGED error

\* db.py:131-147: one future of `done`; after the last, the size check.
InsertDone(f, at) ==
    /\ pc = "drain"
    /\ f \in done
    /\ done' = done \ {f}
    /\ Drain(f, at, IF done' # {} THEN "drain"
                    ELSE IF MustSeal(db_conn'.db) THEN "seal" ELSE "loop")
    /\ UNCHANGED <<db_path, raw_pages, pos, params, batch, batch_size, futures,
                   submitted, target, threads, run, merged, flush_failed, first_run>>

\* A seal after which the writer goes on with the database it has handed to
\* the flush thread.
SealKeeping ==
    /\ pc = "seal"
    /\ Joined(target, threads)
    /\ threads' = threads \cup {Thread(CommitTransaction(db_conn))}
    /\ target' = db_conn.gen
    /\ pc' = "loop"
    /\ UNCHANGED <<db_path, raw_pages, pos, params, batch, batch_size, futures,
                   submitted, done, db_conn, run, error, applied, merged,
                   flush_failed, first_run>>

\* db.py:148-161: commit, wait for the previous flush thread, hand the
\* generation to a new one, open the next generation and begin its
\* transaction.  The commit is on the writer's own connection and touches
\* nothing a worker or a flush thread reads, so it is taken in one step with
\* the wait that follows it.
Seal ==
    /\ pc = "seal"
    /\ Joined(target, threads)
    /\ threads' = threads \cup {Thread(CommitTransaction(db_conn))}
    /\ target' = db_conn.gen
    /\ db_conn' = BeginTransaction(Connection(db_conn.gen + 1, MemoryDb))
    /\ pc' = "loop"
    /\ UNCHANGED <<db_path, raw_pages, pos, params, batch, batch_size, futures,
                   submitted, done, run, error, applied, merged, flush_failed,
                   first_run>>

\* The flush thread: flush_db commits and closes the generation.
FlushThread(t) ==
    /\ t \in threads
    /\ t.state = "running"
    /\ db_path' = flush_db(t.db, db_path)
    /\ threads' = (threads \ {t}) \cup {[t EXCEPT !.state = "finished", !.db = NoStore]}
    /\ merged' = merged \cup {t.gen}
    /\ UNCHANGED <<raw_pages, pos, params, batch, batch_size, futures, submitted,
                   done, db_conn, target, pc, run, error, applied, flush_failed,
                   first_run>>

\* The flush thread: flush_db raises (the target is locked, the disk is full);
\* the thread ends with the exception and the open transaction is lost.
FlushThreadRaises(t) ==
    /\ t \in threads
    /\ t.state = "running"
    /\ threads' = (threads \ {t}) \cup {[t EXCEPT !.state = "raised", !.db = NoStore]}
    /\ flush_failed' = flush_failed \cup {t.gen}
    /\ UNCHANGED <<db_path, raw_pages, pos, params, batch, batch_size, futures,
                   submitted, done, db_conn, target, pc, run, error, applied,
                   merged, first_run>>

\* db.py:163: the end of the input; the last batch is submitted as it is.
EndOfInput ==
    /\ pc = "loop"
    /\ run = 1 \/ pos = Len(raw_pages)
    /\ futures' = Submit(futures, submitted, batch)
    /\ submitted' = submitted + 1
    /\ batch' = <<>>
    /\ batch_size' = 0
    /\ pc' = "final"
    /\ UNCHANGED <<db_path, raw_pages, pos, params, done, db_conn, target, threads, run,
                   error, applied, merged, flush_failed, first_run>>

\* db.py:165-170: cf.as_completed yields a future once it has finished; after
\* the last, the commit.
InsertCompleted(f, at) ==
    /\ pc = "final"
    /\ f \in Finished(futures)
    /\ futures' = futures \ {f}
    /\ Drain(f, at, IF futures' # {} THEN "final" ELSE "join")
    /\ UNCHANGED <<db_path, raw_pages, pos, params, batch, batch_size, submitted,
                   done, target, threads, run, merged, flush_failed, first_run>>

\* db.py:170-173: commit the last generation and wait for the flush thread.
JoinLast ==
    /\ pc = "join"
    /\ Joined(target, threads)
    /\ db_conn' = CommitTransaction(db_conn)
    /\ pc' = "flush"
    /\ UNCHANGED <<db_path, raw_pages, pos, params, batch, batch_size, futures,
                   submitted, done, target, threads, run, error, applied,
                   merged, flush_failed, first_run>>

\* db.py:175: flush the last generation on the writer's own thread.
FinalFlush ==
    /\ pc = "flush"
    /\ db_path' = flush_db(db_conn.db, db_path)
    /\ merged' = merged \cup {db_conn.gen}
    /\ pc' = "returned"
    /\ UNCHANGED <<raw_pages, pos, params, batch, batch_size, futures, submitted,
                   done, db_conn, target, threads, run, error, applied, flush_failed,
                   first_run>>

\* db.py:175: the last flush raises, and insert_pages with it.
FinalFlushRaises ==
    /\ pc = "flush"
    /\ flush_failed' = flush_failed \cup {db_conn.gen}
    /\ error' = [kind |-> "flush", gen |-> db_conn.gen, before |-> db_conn.db]
    /\ pc' = "raised"
    /\ UNCHANGED <<db_path, raw_pages, pos, params, batch, batch_size, futures,
                   submitted, done, db_conn, target, threads, run, applied, merged,
                   first_run>>

Next ==
    \/ Start
    \/ \E raw_page \in source : NextPage(raw_page)
    \/ \E f \in futures : Complete(f)
    \/ Wait
    \/ \E f \in done : \E at \in {<<0, 1>>} \cup ((1..stream_limit) \X (1..Len(Statements))) :
          InsertDone(f, at)
    \/ Seal
    \/ \E t \in threads : FlushThread(t)
    \/ \E t \in threads : FlushThreadRaises(t)
    \/ EndOfInput
    \/ \E f \in futures : \E at \in {<<0, 1>>} \cup ((1..stream_limit) \X (1..Len(Statements))) :
          InsertCompleted(f, at)
    \/ JoinLast
    \/ FinalFlush
    \/ FinalFlushRaises

Spec == Init /\ [][Next]_vars

\* A longer stream, long enough for two generations to be sealed in the loop:
\* every page is a search page that fills a batch of its own and decodes, and
\* no insert into staging raises.
MaxLongStream == 4

InitLongStream ==
    /\ db_path = NoStore
    /\ raw_pages = <<>>
    /\ pos = 0
    /\ n_cpus \in 1..MaxCpus
    /\ in_memory_max_db_size \in {SmallLimit, Unbounded}
    /\ batch = <<>>
    /\ batch_size = 0
    /\ futures = {}
    /\ submitted = 0
    /\ done = {}
    /\ db_conn = Connection(0, NoStore)
    /\ target = NoThread
    /\ threads = {}
    /\ source = {PageSearch, PageSearchLater}
    /\ stream_limit = MaxLongStream
    /\ insert_faults = FALSE
    /\ pc = "start"
    /\ run = 1
    /\ error = NoError
    /\ applied = [p \in Pages |-> 0]
    /\ merged = {}
    /\ flush_failed = {}
    /\ first_run = NoStore

SpecLongStream == InitLongStream /\ [][Next]_vars

\* The same input is ingested once more after a clean first run.
Rerun ==
    /\ pc = "returned"
    /\ run = 1
    /\ run' = 2
    /\ first_run' = db_path
    /\ pos' = 0
    /\ batch' = <<>>
    /\ batch_size' = 0
    /\ futures' = {}
    /\ submitted' = 0
    /\ done' = {}
    /\ db_conn' = Connection(0, NoStore)
    /\ target' = NoThread
    /\ threads' = {}
    /\ pc' = "start"
    /\ error' = NoError
    /\ applied' = [p \in Pages |-> 0]
    /\ merged' = {}
    /\ UNCHANGED <<db_path, raw_pages, params, flush_failed>>

SpecTwice == Init /\ [][Next \/ Rerun]_vars

\* ------------------------------------------------------------ properties
Returned == pc = "returned"

\* The context a context_id of the store stands for.
Resolve(db, context_id) ==
    IF \E r \in db.collection_context : r.context_id = context_id
    THEN ContextOf(CHOOSE r \in db.collection_context : r.context_id = context_id)
    ELSE <<0, "dangling", "dangling">>

\* The content of a store with every surrogate context id replaced by the
\* context it stands for.
Logical(db) ==
    [db EXCEPT
        !.collection_context = {ContextOf(r) : r \in @},
        !.user_at_time = {[r EXCEPT !.context_id = Resolve(db, @)] : r \in @},
        !.tweet_at_time = {[r EXCEPT !.context_id = Resolve(db, @)] : r \in @}]

Perms(n) == {f \in [1..n -> 1..n] : \A i, j \in 1..n : f[i] = f[j] => i = j}

RECURSIVE InsertInOrder(_, _, _, _)
InsertInOrder(db, pages, order, n) ==
    IF n = 0 THEN db
    ELSE insert_processed(InsertInOrder(db, pages, order, n - 1),
                          PAGE_SPEC(pages[order[n]]))

\* What is left in a fresh target when the pages are inserted in the given
\* order into one staging generation that is flushed once.
SingleFlush(pages, order) ==
    flush_db(InsertInOrder(MemoryDb, pages, order, Len(pages)),
             ensure_db(NoStore).store)

\* The rows a page yields in a table, decoded and inserted on its own.
RowsOf(raw_page, table) ==
    insert_processed(MemoryDb, PAGE_SPEC(raw_page))[table]

\* The natural key of a row: the primary key, and for collection_context the
\* context in place of the surrogate id.
NaturalKey(table, row) ==
    IF table = "collection_context" THEN ContextOf(row) ELSE PrimaryKey(table, row)

Tables == {table_keys[n] : n \in 1..Len(table_keys)}

InputPages == {raw_pages[i] : i \in 1..Len(raw_pages)}

\* C1: a run that sealed and merged several generations leaves in a fresh
\* target the content, compared logically, that a single flush of the same
\* pages leaves (for some order in which the one generation received them).
C1_FlushCorrectness ==
    (Returned /\ run = 1 /\ flush_failed = {}) =>
        \E order \in Perms(Len(raw_pages)) :
            Logical(db_path) = Logical(SingleFlush(raw_pages, order))

\* C2: when insert_pages has returned, every input page was inserted exactly
\* once, every generation was merged and every row key of every page is in
\* the target.
C2_NothingLost ==
    Returned =>
        /\ \A p \in PageSet :
              applied[p] = Cardinality({i \in 1..Len(raw_pages) : raw_pages[i] = p})
        /\ \A gen \in 1..db_conn.gen : gen \in merged
        /\ \A p \in InputPages : \A table \in Tables : \A row \in RowsOf(p, table) :
              \E r \in db_path[table] : NaturalKey(table, r) = NaturalKey(table, row)

\* C3: insert_pages never returns normally when the merge of a generation
\* raised.
C3_FlushErrorAborts == Returned => flush_failed = {}

\* C4: after a clean run, every user_at_time and tweet_at_time row of the
\* target has a context_id of a collection_context row of the target that
\* carries the metadata of an input page the row was decoded from.
C4_ContextReference ==
    (Returned /\ run = 1 /\ flush_failed = {}) =>
        \A table \in {"user_at_time", "tweet_at_time"} : \A row \in db_path[table] :
            \E c \in db_path.collection_context :
                /\ c.context_id = row.context_id
                /\ \E p \in InputPages :
                      /\ ContextOf(c) = ContextOf(METADATA_SPEC(p.twarc))
                      /\ \E r \in RowsOf(p, table) :
                            PrimaryKey(table, r) = PrimaryKey(table, row)

\* C5: after a clean run, every context of an input page has exactly one row
\* in the target's collection_context.
C5_OneRowPerContext ==
    (Returned /\ run = 1 /\ flush_failed = {}) =>
        \A p \in InputPages :
            Cardinality({c \in db_path.collection_context :
                            ContextOf(c) = ContextOf(METADATA_SPEC(p.twarc))}) = 1

\* C6: ingesting the same pages a second time leaves the row count of every
\* table as the first ingestion left it.
C6_Idempotence ==
    (Returned /\ run = 2 /\ flush_failed = {}) =>
        \A table \in Tables :
            Cardinality(db_path[table]) = Cardinality(first_run[table])

\* C7: the final content of the target, compared logically, is the same for
\* every order in which the pages are inserted.
C7_OrderIndependence ==
    (Returned /\ run = 1 /\ flush_failed = {} /\ in_memory_max_db_size = Unbounded) =>
        \A order \in Perms(Len(raw_pages)) :
            Logical(db_path) = Logical(SingleFlush(raw_pages, order))

\* C8: when an insert of a bundle has raised, the open generation holds what
\* it held before that bundle (a save-point rolled the bundle back).
C8_AtomicFanOut == error.kind = "insert" => db_conn.db = error.before

\* C9: a decode or insert error makes insert_pages raise, insert_pages never
\* returns when a page of the input cannot be decoded, and the generation
\* that was open at the failure stays open and is never merged.
C9_FailFast ==
    /\ Returned => \A i \in 1..Len(raw_pages) : Decodable(raw_pages[i])
    /\ error.kind \in {"decode", "insert"} =>
          /\ pc = "raised"
          /\ db_conn.gen = error.gen
          /\ error.gen \notin merged

\* C9 happens: a page could not be decoded after an earlier generation had
\* been sealed and merged.
C9_Witness ==
    /\ pc = "raised"
    /\ error.kind = "decode"
    /\ merged # {}
    /\ error.gen \notin merged

\* The batches submitted to the pool and not yet drained by the writer.
InFlight == futures \cup done

\* C10 as stated: never more than n_cpus + 1 batches in flight.
C10_BoundAsStated == Cardinality(InFlight) <= n_cpus + 1

\* C10 as the code has it: never more than n_cpus + 2 batches in flight, and
\* more than n_cpus + 1 only while the writer is about to drain, not where it
\* reads on and submits.
C10_Backpressure ==
    /\ Cardinality(InFlight) <= n_cpus + 2
    /\ pc \in {"loop", "seal"} => Cardinality(InFlight) <= n_cpus + 1

\* C10 happens: the writer waits with n_cpus + 2 batches in flight.
C10_Witness == pc = "wait" /\ Cardinality(InFlight) = n_cpus + 2

\* The merges into the target that are under way: the flush threads that have
\* not ended, and the writer's own last flush.
MergesRunning ==
    Cardinality({t \in threads : t.state = "running"})
        + IF pc = "flush" THEN 1 ELSE 0

\* C11: at most one merge into the target is running at any moment: a flush
\* thread is started, and the last flush made, only when the previous flush
\* thread has ended; and the writer reaches the target itself (the schema
\* check at the start, the last flush) only when no flush thread is running.
C11_SerializedFlush ==
    /\ MergesRunning <= 1
    /\ pc \in {"start", "flush"} => \A t \in threads : t.state # "running"

\* A second flush thread runs after the first has finished.
C11_Witness ==
    \E t, u \in threads :
        t.gen < u.gen /\ t.state = "finished" /\ u.state = "running"

Generations == 1..db_conn.gen

\* Where the writer has a staging generation in its hands: inserting into it
\* (db.py:118-168), committing it (db.py:148, 170), flushing it (db.py:175).
WriterAtWork == pc \in {"loop", "wait", "drain", "seal", "final", "join", "flush"}

\* While pages are still being inserted.
Ingesting == pc \in {"loop", "wait", "drain", "seal", "final"}

\* The state of a generation: RETIRED once its merge has committed; MERGING
\* once it has been given to flush_db (in a thread, or by the writer at the
\* end); SEALED when the writer has committed it for the last flush and waits
\* for the previous flush thread; OPEN while it is the writer's db_conn.
GenState(g) ==
    IF g \in merged THEN "RETIRED"
    ELSE IF \E t \in threads : t.gen = g THEN "MERGING"
    ELSE IF g = db_conn.gen /\ (pc = "flush" \/ error.kind = "flush") THEN "MERGING"
    ELSE IF g = db_conn.gen /\ pc = "join" THEN "SEALED"
    ELSE "OPEN"

Rank(state) ==
    CASE state = "OPEN" -> 1
      [] state = "SEALED" -> 2
      [] state = "MERGING" -> 3
      [] state = "RETIRED" -> 4

\* The parts of C13 on which the statement and the code agree: a generation
\* never goes back; one generation is open while pages are inserted; a
\* generation has one flush thread at most, and one that was merged is in
\* nobody's hands any more; the writer's generation is never one that a flush
\* thread was given.
LifecycleForward ==
    [][\A g \in Generations : Rank(GenState(g)') >= Rank(GenState(g))]_vars

LifecycleInvariant ==
    /\ Ingesting => Cardinality({g \in Generations : GenState(g) = "OPEN"}) = 1
    /\ \A t, u \in threads : t.gen = u.gen => t = u
    /\ \A g \in merged :
          /\ \A t \in threads : t.gen = g => t.state = "finished"
          /\ g = db_conn.gen => pc = "returned"
    /\ \A t \in threads : t.gen < db_conn.gen

\* C13 as stated: beside the lifecycle, whenever the writer has a generation
\* in its hands that generation is open: a sealed generation is used by a
\* flush thread only.
C13_AsStated ==
    /\ LifecycleInvariant
    /\ WriterAtWork => GenState(db_conn.gen) = "OPEN"

\* C13: every generation moves forward only through OPEN, SEALED, MERGING,
\* RETIRED; exactly one is open while pages are inserted; each is merged at
\* most once; a generation sealed at the threshold is never in the writer's
\* hands again, and the last generation is sealed and merged by the writer
\* itself once the input has ended.
C13_Lifecycle ==
    /\ []LifecycleInvariant
    /\ LifecycleForward
    /\ [](WriterAtWork /\ GenState(db_conn.gen) # "OPEN" => pc \in {"join", "flush"})

\* The writer merges the last generation after an earlier one was retired.
C13_Witness ==
    /\ pc = "flush"
    /\ \E g, h \in Generations : GenState(g) = "RETIRED" /\ GenState(h) = "MERGING"

\* The run returned and no merge raised on the way.
CleanRun == Returned /\ flush_failed = {}

\* The tweet_at_time rows of a store for one post at one retrieval time.
TweetRows(db, tweet_id, retrieved_at) ==
    {x \in db.tweet_at_time : x.tweet_id = tweet_id /\ x.retrieved_at = retrieved_at}

\* C17: when two pages of the input carry the same post at the same
\* retrieved_at, the target has after the run exactly one tweet_at_time row
\* for that (tweet_id, retrieved_at), and each hashtag row of that post
\* exactly once, in whatever generations the two pages were staged.
C17_ExactlyOncePerKey ==
    CleanRun =>
        \A i, j \in 1..Len(raw_pages) :
            i < j =>
                \A r \in RowsOf(raw_pages[i], "tweet_at_time") :
                    TweetRows([tweet_at_time |-> RowsOf(raw_pages[j], "tweet_at_time")],
                              r.tweet_id, r.retrieved_at) # {} =>
                        /\ Cardinality(TweetRows(db_path, r.tweet_id, r.retrieved_at)) = 1
                        /\ \A h \in RowsOf(raw_pages[i], "tweet_hashtag")
                                    \cup RowsOf(raw_pages[j], "tweet_hashtag") :
                              (h.tweet_id = r.tweet_id /\ h.retrieved_at = r.retrieved_at)
                                  => Cardinality({x \in db_path.tweet_hashtag : x = h}) = 1

\* The same search page came twice and the run merged more than one generation.
C17_Witness ==
    /\ CleanRun
    /\ Cardinality(merged) >= 2
    /\ \E i, j \in 1..Len(raw_pages) :
          i < j /\ raw_pages[i] = PageSearch /\ raw_pages[j] = PageSearch

\* The process is interrupted while insert_pages runs: the staging
\* generations, the batches in flight and the flush thread are gone, a merge
\* that had not committed leaves nothing in the target.  insert_pages is
\* then called again on the same input and the same target.
Crash ==
    /\ run = 1
    /\ pc \notin {"start", "returned", "raised"}
    /\ run' = 2
    /\ first_run' = db_path
    /\ pos' = 0
    /\ batch' = <<>>
    /\ batch_size' = 0
    /\ futures' = {}
    /\ submitted' = 0
    /\ done' = {}
    /\ db_conn' = Connection(0, NoStore)
    /\ target' = NoThread
    /\ threads' = {}
    /\ pc' = "start"
    /\ error' = NoError
    /\ applied' = [p \in Pages |-> 0]
    /\ merged' = {}
    /\ flush_failed' = {}
    /\ UNCHANGED <<db_path, raw_pages, params>>

\* A stream of three pages that each fill a batch and have three different
\* collection contexts, decoded by one worker; no insert into staging raises.
MaxCrashStream == 3

InitCrash ==
    /\ db_path = NoStore
    /\ raw_pages = <<>>
    /\ pos = 0
    /\ n_cpus = 1
    /\ in_memory_max_db_size \in {SmallLimit, Unbounded}
    /\ batch = <<>>
    /\ batch_size = 0
    /\ futures = {}
    /\ submitted = 0
    /\ done = {}
    /\ db_conn = Connection(0, NoStore)
    /\ target = NoThread
    /\ threads = {}
    /\ source = {PageSearch, PageSearchLater, PageTimeline}
    /\ stream_limit = MaxCrashStream
    /\ insert_faults = FALSE
    /\ pc = "start"
    /\ run = 1
    /\ error = NoError
    /\ applied = [p \in Pages |-> 0]
    /\ merged = {}
    /\ flush_failed = {}
    /\ first_run = NoStore

SpecCrash == InitCrash /\ [][Next \/ Crash]_vars

\* An uninterrupted run on a fresh target that inserts the pages in the
\* given order and seals the open generation after the positions in `cuts`:
\* the target and the open generation after the first n pages.
RECURSIVE RunTo(_, _, _, _)
RunTo(pages, order, cuts, n) ==
    IF n = 0 THEN [store |-> ensure_db(NoStore).store, staging |-> MemoryDb]
    ELSE LET before == RunTo(pages, order, cuts, n - 1)
             staging == insert_processed(before.staging, PAGE_SPEC(pages[order[n]]))
         IN IF n \in cuts
            THEN [store |-> flush_db(staging, before.store), staging |-> MemoryDb]
            ELSE [before EXCEPT !.staging = staging]

\* What such a run leaves in the target after its last flush.
Uninterrupted(pages, order, cuts) ==
    LET last == RunTo(pages, order, cuts, Len(pages))
    IN flush_db(last.staging, last.store)

\* The contents, compared logically, that uninterrupted runs on the pages can
\* leave: every order of insertion and every way of sealing.
UninterruptedRuns(pages) ==
    {Logical(Uninterrupted(pages, order, cuts)) :
        order \in Perms(Len(pages)), cuts \in SUBSET (1..Len(pages))}

\* C18: when insert_pages was interrupted and has then run again to the end
\* on the same input and the same target, the target holds, compared
\* logically, what some uninterrupted run on that input leaves in a fresh
\* target.
C18_CrashSafe ==
    (run = 2 /\ CleanRun) => Logical(db_path) \in UninterruptedRuns(raw_pages)

\* C19: no step of any run takes a row out of a table of the target or
\* changes one: the rows of every table after the step include the rows
\* before it.
C19_AppendOnly ==
    [][\A table \in Tables : db_path[table] \subseteq db_path'[table]]_vars

\* A second run has merged into a target that held rows of the same pages.
C19_Witness ==
    /\ run = 2
    /\ Returned
    /\ first_run.collection_context # {}
    /\ first_run.tweet_at_time # {}

\* The ids of the elements of an array of a page.
Ids(array) == {array[i].id : i \in 1..Len(array)}

\* The users and the tweets a raw page carries, as payload or in includes.
UsersIn(raw_page) ==
    Ids(raw_page.includes.users)
        \cup IF raw_page.kind = "users" THEN Ids(raw_page.data) ELSE {}

TweetsIn(raw_page) ==
    Ids(raw_page.includes.tweets)
        \cup IF raw_page.kind = "tweets" THEN Ids(raw_page.data) ELSE {}

\* The retrieval times at which the input carried a user, a tweet.
UserSeenAt(id) == {p.twarc.retrieved_at : p \in {q \in InputPages : id \in UsersIn(q)}}

TweetSeenAt(id) == {p.twarc.retrieved_at : p \in {q \in InputPages : id \in TweetsIn(q)}}

\* C20: after a run that returned with no merge having raised, user_at_time
\* has for every user id as many rows as there are distinct retrieved_at at
\* which the input carried that user, and tweet_at_time likewise for every
\* tweet id.
C20_AppendVersioning ==
    CleanRun =>
        /\ \A id \in UNION {UsersIn(p) : p \in Pages} :
              Cardinality({r \in db_path.user_at_time : r.user_id = id})
                  = Cardinality(UserSeenAt(id))
        /\ \A id \in UNION {TweetsIn(p) : p \in Pages} :
              Cardinality({r \in db_path.tweet_at_time : r.tweet_id = id})
                  = Cardinality(TweetSeenAt(id))

\* A user and a tweet were observed at two times, in pages that were merged
\* with different generations.
C20_Witness ==
    /\ CleanRun
    /\ Cardinality(merged) >= 2
    /\ \E id \in UNION {UsersIn(p) : p \in Pages} : Cardinality(UserSeenAt(id)) = 2
    /\ \E id \in UNION {TweetsIn(p) : p \in Pages} : Cardinality(TweetSeenAt(id)) = 2

\* C16: when the target is stamped with another schema version, insert_pages
\* raises with nothing begun: no batch submitted to a worker, no page taken
\* from the stream, no staging generation and no flush thread created, and
\* the target as it was.
C16_NeverStarts ==
    error.kind = "schema" =>
        /\ pc = "raised"
        /\ raw_pages = <<>> /\ pos = 0
        /\ batch = <<>> /\ submitted = 0 /\ futures = {} /\ done = {}
        /\ db_conn.gen = 0 /\ threads = {} /\ merged = {}
        /\ db_path = OtherVersionStore

\* insert_pages was called on a target of another version and has raised.
C16_Witness == pc = "raised" /\ error.kind = "schema" /\ db_path = OtherVersionStore

\* ------------------------------------------------- ensure_db on its own
\* ensure_db called on a database file that exists already: one without
\* tables, or one with the tables, the rows of at most one page, any journal
\* mode, and no version stamp or the stamp of a version near the current one.
MaxVersionGap == 2

StoredVersions ==
    (CURRENT_SCHEMA_VERSION - MaxVersionGap)..(CURRENT_SCHEMA_VERSION + MaxVersionGap)

JournalModes == {"delete", "truncate", "wal"}

StoredRows ==
    {SCHEMA_STATEMENTS}
        \cup {SingleFlush(<<p>>, <<1>>) : p \in {q \in PageSet : Decodable(q)}}

ExistingStores ==
    {[NoStore EXCEPT !.journal_mode = j] : j \in JournalModes}
        \cup {[rows EXCEPT !.metadata = stamp, !.journal_mode = j] :
                rows \in StoredRows, j \in JournalModes,
                stamp \in {{}} \cup {{VersionRow(v)} : v \in StoredVersions}}

InitEnsureDb ==
    /\ db_path \in ExistingStores
    /\ raw_pages = <<>>
    /\ pos = 0
    /\ n_cpus = 1
    /\ in_memory_max_db_size = Unbounded
    /\ batch = <<>>
    /\ batch_size = 0
    /\ futures = {}
    /\ submitted = 0
    /\ done = {}
    /\ db_conn = Connection(0, NoStore)
    /\ target = NoThread
    /\ threads = {}
    /\ source = {}
    /\ stream_limit = 0
    /\ insert_faults = FALSE
    /\ pc = "ensure_db"
    /\ run = 1
    /\ error = NoError
    /\ applied = [p \in Pages |-> 0]
    /\ merged = {}
    /\ flush_failed = {}
    /\ first_run = NoStore

\* ensure_db(db_path): error keeps what was raised and the store as it was.
OpenStore ==
    /\ pc = "ensure_db"
    /\ LET opened == ensure_db(db_path)
       IN /\ db_path' = opened.store
          /\ error' = [kind |-> opened.raised, gen |-> 0, before |-> db_path]
          /\ pc' = IF opened.raised = None THEN "opened" ELSE "raised"
    /\ UNCHANGED <<raw_pages, pos, params, batch, batch_size, futures, submitted,
                   done, db_conn, target, threads, run, applied, merged,
                   flush_failed, first_run>>

SpecEnsureDb == InitEnsureDb /\ [][OpenStore]_vars

\* The version stamps of a store that has the metadata table.
Stamps(store) ==
    {r.value : r \in {m \in store.metadata : m.key = "twittersphere_schema_version"}}

C15_Install ==
    /\ (pc # "ensure_db" /\ Stamps(error.before) = {})
          => /\ pc = "opened"
             /\ db_path.installed
             /\ Stamps(db_path) = {CURRENT_SCHEMA_VERSION}
             /\ \A table \in Tables \ {"metadata"} : db_path[table] = error.before[table]
    /\ (pc # "ensure_db" /\ Stamps(error.before) = {CURRENT_SCHEMA_VERSION})
          => /\ pc = "opened"
             /\ db_path = error.before

\* C21: once ensure_db has installed the schema in the target, the tables
\* flush_db merges into it, the keys of table_keys, are the tables it has:
\* those SCHEMA_STATEMENTS creates.
C21_FlushCoversSchema == db_path.installed => Tables = CreatedTables

\* The users and the tweets of the primary data payload of a raw page.
DirectUsersIn(raw_page) == IF raw_page.kind = "users" THEN Ids(raw_page.data) ELSE {}

DirectTweetsIn(raw_page) == IF raw_page.kind = "tweets" THEN Ids(raw_page.data) ELSE {}

\* C22: after a run that returned with no merge having raised,
\* directly_collected_user holds exactly the ids of the users of the primary
\* data payload of some input page and directly_collected_tweet exactly the
\* ids of the tweets of such a payload (so an id seen only in includes is not
\* marked), and every marked id has a row in user_at_time, in tweet_at_time.
C22_DirectMarkers ==
    CleanRun =>
        /\ {r.user_id : r \in db_path.directly_collected_user}
              = UNION {DirectUsersIn(p) : p \in InputPages}
        /\ {r.tweet_id : r \in db_path.directly_collected_tweet}
              = UNION {DirectTweetsIn(p) : p \in InputPages}
        /\ \A r \in db_path.directly_collected_user :
              \E u \in db_path.user_at_time : u.user_id = r.user_id
        /\ \A r \in db_path.directly_collected_tweet :
              \E t \in db_path.tweet_at_time : t.tweet_id = r.tweet_id

\* A clean run marked a user and a tweet, and its input carried a user and a
\* tweet in includes only, which are stored and not marked.
C22_Witness ==
    /\ CleanRun
    /\ db_path.directly_collected_user # {}
    /\ db_path.directly_collected_tweet # {}
    /\ \E u \in db_path.user_at_time :
          /\ u.user_id \notin UNION {DirectUsersIn(p) : p \in InputPages}
          /\ u.user_id \notin {r.user_id : r \in db_path.directly_collected_user}
    /\ \E t \in db_path.tweet_at_time :
          /\ t.tweet_id \notin UNION {DirectTweetsIn(p) : p \in InputPages}
          /\ t.tweet_id \notin {r.tweet_id : r \in db_path.directly_collected_tweet}

\* ------------------------------------------------------- twittersphere.py
\* A text is the sequence of the segments token_regex splits it into.
stopwords == {",", ".", "-", ""}

\* str.lower on the segments of the model.
lower(segment) ==
    CASE segment = "Sydney" -> "sydney"
      [] segment = "Uni" -> "uni"
      [] OTHER -> segment

\* tokenize: the lower-cased segments that are no stopwords.
tokenize(text) ==
    SelectSeq([i \in 1..Len(text) |-> lower(text[i])], LAMBDA t : t \notin stopwords)

\* ngrams: the runs of 1 to n successive tokens of the text.
ngrams(text, n) ==
    LET token_list == tokenize(text)
        n_tokens == Len(token_list)
    IN {SubSeq(token_list, i, i + l - 1) :
            <<l, i>> \in {li \in (1..n) \X (1..n_tokens) : li[2] <= n_tokens - (li[1] - 1)}}

\* rules.get(field, set())
RulesOf(rules, field) == IF field \in DOMAIN rules THEN rules[field] ELSE {}

\* A classification that also matches when as many exclude rules are found
\* as include rules.
classify_user_profileAtLeast(profile, include_rules, exclude_rules) ==
    LET positive_matches(field) == ngrams(profile[field], 3) \cap RulesOf(include_rules, field)
        negative_matches(field) == ngrams(profile[field], 3) \cap RulesOf(exclude_rules, field)
    IN Cardinality(positive_matches("name"))
         + Cardinality(positive_matches("description"))
         + Cardinality(positive_matches("location"))
       >= Cardinality(negative_matches("name"))
            + Cardinality(negative_matches("description"))
            + Cardinality(negative_matches("location"))

\* classify_user_profile: more include rules than exclude rules are found in
\* the name, the description and the location, each counted in its field.
classify_user_profile(profile, include_rules, exclude_rules) ==
    LET positive_matches(field) == ngrams(profile[field], 3) \cap RulesOf(include_rules, field)
        negative_matches(field) == ngrams(profile[field], 3) \cap RulesOf(exclude_rules, field)
    IN Cardinality(positive_matches("name"))
         + Cardinality(positive_matches("description"))
         + Cardinality(positive_matches("location"))
       > Cardinality(negative_matches("name"))
           + Cardinality(negative_matches("description"))
           + Cardinality(negative_matches("location"))

\* The view user_latest: of each user_id's rows the one of the greatest
\* retrieved_at.
user_latest(db) ==
    {r \in db.user_at_time :
        \A s \in db.user_at_time : s.user_id = r.user_id => s.retrieved_at <= r.retrieved_at}

\* The loop over the profiles: a plain insert of every matching user, which
\* raises on a row that is already there.
RECURSIVE InsertMatching(_, _, _, _, _, _)
InsertMatching(rows, profiles, include_rules, exclude_rules, ruleset_name, n) ==
    IF n = 0 THEN [raised |-> None, rows |-> rows]
    ELSE LET before == InsertMatching(rows, profiles, include_rules, exclude_rules,
                                      ruleset_name, n - 1)
             row == [ruleset_name |-> ruleset_name, user_id |-> profiles[n].user_id]
         IN IF before.raised # None
               \/ ~classify_user_profile(profiles[n], include_rules, exclude_rules)
            THEN before
            ELSE IF Conflicts("user_matching_ruleset", before.rows, row)
            THEN [before EXCEPT !.raised = "IntegrityError"]
            ELSE [before EXCEPT !.rows = @ \cup {row}]

\* The rules applied on top of the rows the name already has.
apply_user_rules_to_dbKeeping(db, include_rules, exclude_rules, ruleset_name) ==
    LET profiles == SetToSeq(user_latest(db))
        matches == {[ruleset_name |-> ruleset_name, user_id |-> profiles[i].user_id] :
                       i \in {j \in 1..Len(profiles) :
                                classify_user_profile(profiles[j], include_rules,
                                                      exclude_rules)}}
    IN [raised |-> None,
        store |-> [db EXCEPT !.user_matching_ruleset = @ \cup matches]]

\* apply_user_rules_to_db: in one transaction the rows of the ruleset are
\* deleted and the matching users of user_latest inserted; an exception
\* rolls the transaction back and is raised again.
apply_user_rules_to_db(db, include_rules, exclude_rules, ruleset_name) ==
    LET deleted == {r \in db.user_matching_ruleset : r.ruleset_name # ruleset_name}
        profiles == SetToSeq(user_latest(db))
        inserted == InsertMatching(deleted, profiles, include_rules, exclude_rules,
                                   ruleset_name, Len(profiles))
    IN IF inserted.raised = None
       THEN [raised |-> None, store |-> [db EXCEPT !.user_matching_ruleset = inserted.rows]]
       ELSE [raised |-> inserted.raised, store |-> db]

\* ---- filter-users on a prepared store
\* The rows of user_at_time a prepared store starts with.
MaxProfiles == 2

ProfileTexts ==
    {[name |-> <<"Sydney", ",", "Uni">>, description |-> <<>>, location |-> <<"sydney">>],
     [name |-> <<"uni">>, description |-> <<"sydney", "-", "uni", "of", "bob">>,
      location |-> <<>>],
     [name |-> <<"bob">>, description |-> <<"uni">>, location |-> <<"Sydney">>],
     [name |-> <<"bob">>, description |-> <<>>, location |-> <<>>]}

ProfileRows ==
    {[user_id |-> u, context_id |-> 1, retrieved_at |-> at, name |-> p.name,
      description |-> p.description, location |-> p.location] :
        u \in {1, 2}, at \in {1, 2}, p \in ProfileTexts}

PreparedStores ==
    {[SCHEMA_STATEMENTS EXCEPT !.user_at_time = rows] :
        rows \in {s \in SUBSET ProfileRows :
                    /\ Cardinality(s) <= MaxProfiles
                    /\ \A a, b \in s :
                          PrimaryKey("user_at_time", a) = PrimaryKey("user_at_time", b)
                              => a = b}}

\* The include and the exclude rules of the rule files applied.
RuleFiles ==
    {[include |-> [location |-> {<<"sydney">>}], exclude |-> <<>>],
     [include |-> [name |-> {<<"sydney", "uni">>, <<"uni">>}],
      exclude |-> [name |-> {<<"sydney">>}]],
     [include |-> [description |-> {<<"uni">>}, location |-> {}],
      exclude |-> [location |-> {<<"sydney">>}, description |-> {}]],
     [include |-> [name |-> {<<"bob">>}, description |-> {<<"sydney", "uni">>}],
      exclude |-> [name |-> {}, description |-> {}]],
     [include |-> [name |-> {<<"sydney">>}, location |-> {<<"sydney">>},
                   description |-> {<<"sydney", "uni", "of", "bob">>}],
      exclude |-> [description |-> {<<"uni", "of", "bob">>}, name |-> {<<"Uni">>}]]}

RulesetNames == {"test", "other"}

InitRules ==
    /\ db_path \in PreparedStores
    /\ raw_pages = <<>>
    /\ pos = 0
    /\ n_cpus = 1
    /\ in_memory_max_db_size = Unbounded
    /\ batch = <<>>
    /\ batch_size = 0
    /\ futures = {}
    /\ submitted = 0
    /\ done = {}
    /\ db_conn = Connection(0, NoStore)
    /\ target = NoThread
    /\ threads = {}
    /\ source = {}
    /\ stream_limit = 0
    /\ insert_faults = FALSE
    /\ pc = "filter_users"
    /\ run = 1
    /\ error = NoError
    /\ applied = [p \in Pages |-> 0]
    /\ merged = {}
    /\ flush_failed = {}
    /\ first_run = NoStore

\* filter_users: the store is opened and the rules of a rule file applied to
\* it under a name; error keeps what was raised and the store as it was.
filter_users(rule_file, ruleset_name) ==
    /\ pc = "filter_users"
    /\ LET opened == ensure_db(db_path)
           call == apply_user_rules_to_db(opened.store, rule_file.include,
                                          rule_file.exclude, ruleset_name)
       IN /\ opened.raised = None
          /\ db_path' = call.store
          /\ error' = [kind |-> call.raised, gen |-> 0, before |-> db_path]
    /\ UNCHANGED <<raw_pages, pos, params, batch, batch_size, futures, submitted,
                   done, db_conn, target, threads, pc, run, applied, merged,
                   flush_failed, first_run>>

NextRules == \E rule_file \in RuleFiles, ruleset_name \in RulesetNames :
                filter_users(rule_file, ruleset_name)

SpecRules == InitRules /\ [][NextRules]_vars

\* The users whose row of the greatest retrieved_at the rules classify as
\* matching.
LatestMatching(db, rule_file) ==
    {u \in {r.user_id : r \in db.user_at_time} :
        \E r \in db.user_at_time :
            /\ r.user_id = u
            /\ ~\E s \in db.user_at_time : s.user_id = u /\ s.retrieved_at > r.retrieved_at
            /\ classify_user_profile(r, rule_file.include, rule_file.exclude)}

RulesetRows(db, ruleset_name) ==
    {r \in db.user_matching_ruleset : r.ruleset_name = ruleset_name}

\* C23: whatever rules are applied under whatever name to a store filter-users
\* can have left, the call completes, the rows of the name are then exactly
\* the users whose latest profile matches, the rows of every other name are
\* as they were, and applying the same rules again changes nothing.
C23_RulesetReplaced ==
    \A rule_file \in RuleFiles, ruleset_name \in RulesetNames :
        LET call == apply_user_rules_to_db(db_path, rule_file.include,
                                           rule_file.exclude, ruleset_name)
            again == apply_user_rules_to_db(call.store, rule_file.include,
                                            rule_file.exclude, ruleset_name)
        IN pc = "filter_users" =>
              /\ call.raised = None
              /\ {r.user_id : r \in RulesetRows(call.store, ruleset_name)}
                    = LatestMatching(db_path, rule_file)
              /\ \A other \in RulesetNames \ {ruleset_name} :
                    RulesetRows(call.store, other) = RulesetRows(db_path, other)
              /\ {r.ruleset_name : r \in call.store.user_matching_ruleset} \subseteq RulesetNames
              /\ again.raised = None
              /\ again.store = call.store

\* Rules were applied under a name that had rows: a row of that name is gone,
\* a new one is there, and a row of another name is kept.
C23_Witness ==
    /\ pc = "filter_users"
    /\ error.kind = None
    /\ \E gone \in error.before.user_matching_ruleset \ db_path.user_matching_ruleset :
          /\ \E new \in db_path.user_matching_ruleset \ error.before.user_matching_ruleset :
                new.ruleset_name = gone.ruleset_name
          /\ \E kept \in db_path.user_matching_ruleset \cap error.before.user_matching_ruleset :
                kept.ruleset_name # gone.ruleset_name

\* ---- batching
\* The sum of len(raw_page) over the pages of a batch.
RECURSIVE ByteSize(_)
ByteSize(pages) == IF pages = <<>> THEN 0 ELSE Head(pages).len + ByteSize(Tail(pages))

\* The number of pages read that have been dispatched in a batch.
Dispatched == pos - Len(batch)

\* A step that submits a batch to the pool.
Dispatch == submitted' = submitted + 1

\* C24: the batch being collected is always the pages read since the last
\* dispatch, in input order; a step that submits a batch submits exactly
\* those pages, in order, and starts an empty batch, and no other step moves
\* the mark of what has been dispatched; a batch submitted in the loop has a
\* size of at least min_batch_size and less than that without its last page;
\* the batch submitted at the end of the input is what is left over, up to
\* the last page read.
C24_Batching ==
    /\ [](pc \notin {"start", "raised"} => batch = SubSeq(raw_pages, Dispatched + 1, pos))
    /\ [][IF Dispatch
          THEN \E f \in futures' \ futures :
                  /\ futures' = futures \cup {f}
                  /\ f.id = submitted'
                  /\ f.batch = SubSeq(raw_pages', Dispatched + 1, pos')
                  /\ Dispatched' = pos'
                  /\ IF pc' = "final"
                     THEN pos' = Len(raw_pages') /\ f.batch = batch
                     ELSE /\ ByteSize(f.batch) >= min_batch_size
                          /\ ByteSize(SubSeq(f.batch, 1, Len(f.batch) - 1)) < min_batch_size
          ELSE Dispatched' = Dispatched /\ futures' \subseteq futures \cup Finished(futures')
         ]_vars

\* The input has ended: a batch of two pages was submitted in the loop, and
\* the page left over in the final batch.
C24_Witness ==
    /\ pc = "final"
    /\ \E f, g \in futures :
          /\ f.id < g.id
          /\ g.id = submitted
          /\ Len(f.batch) = 2
          /\ Len(g.batch) = 1
          /\ f.batch \o g.batch = raw_pages

\* ---- the seal trigger
\* C25: the writer begins to insert a drained batch, in the loop or in the
\* final drain, only into a generation whose size is below the maximum (a
\* generation that reached it at the end of the previous drain has been
\* sealed), and it seals a generation only at a size of the maximum or more.
C25_SealTrigger ==
    [][/\ (pc = "wait" /\ pc' = "drain") => ~MustSeal(db_conn.db)
       /\ (pc = "final" /\ \E f \in futures \ futures' : f.batch # <<>>)
             => ~MustSeal(db_conn.db)
       /\ (pc = "seal" /\ pc' # "seal") => MustSeal(db_conn.db)
      ]_vars

\* ---- the order of the inserts of one bundle
Position(table) == CHOOSE n \in 1..Len(Statements) : Statements[n] = table

\* insert_pages has raised out of insert_processed: some statement of one
\* bundle raised after those before it were executed.
InsertRaised == pc = "raised" /\ error.kind = "insert"

\* The first n statements of a bundle are what the open generation holds
\* more than before the bundle, and every pair of the order whose second
\* table has been written has its first table written.
Interrupted(order) ==
    \E p \in {q \in InputPages : Decodable(q)}, n \in 0..(Len(Statements) - 1) :
        /\ db_conn.db = InsertStatements(error.before, PAGE_SPEC(p), n)
        /\ \A pair \in order : Position(pair[2]) <= n => Position(pair[1]) <= n

\* Every row of the open generation that carries a context id has the row of
\* that context.
ContextResolved ==
    \A table \in {"user_at_time", "tweet_at_time"} :
        \A r \in db_conn.db[table] :
            \E c \in db_conn.db.collection_context : c.context_id = r.context_id

\* The order as stated: both markers are written before the posts.
OrderAsStated ==
    {<<"collection_context", "user_at_time">>,
     <<"user_at_time", "directly_collected_user">>,
     <<"directly_collected_user", "tweet_at_time">>,
     <<"directly_collected_tweet", "tweet_at_time">>,
     <<"tweet_at_time", "tweet_hashtag">>,
     <<"tweet_at_time", "tweet_url">>}

\* The order of the code: the marker of the tweets follows the posts.
InsertOrder ==
    {<<"collection_context", "user_at_time">>,
     <<"user_at_time", "directly_collected_user">>,
     <<"directly_collected_user", "tweet_at_time">>,
     <<"tweet_at_time", "tweet_hashtag">>,
     <<"tweet_at_time", "tweet_url">>,
     <<"tweet_at_time", "directly_collected_tweet">>,
     <<"tweet_url", "directly_collected_tweet">>}

\* C26 as stated: wherever a bundle's inserts are interrupted, the context
\* was written first, then the users, then the markers of users and of
\* tweets, then the posts, then the tables keyed off posts; and no row
\* carries a context id that has no context.
C26_AsStated == InsertRaised => Interrupted(OrderAsStated) /\ ContextResolved

\* C26: wherever a bundle's inserts are interrupted, the context was written
\* first, then the users, then the marker of the users, then the posts, then
\* the tables keyed off posts, the marker of the tweets among them (after
\* tweet_url); and no row carries a context id that has no context.
C26_InsertOrder == InsertRaised => Interrupted(InsertOrder) /\ ContextResolved

\* A bundle was interrupted after its posts and their hashtags and urls were
\* written and before its marker of tweets was.
C26_Witness ==
    /\ InsertRaised
    /\ db_conn.db.tweet_at_time # error.before.tweet_at_time
    /\ db_conn.db.tweet_url # error.before.tweet_url
    /\ \E p \in {q \in InputPages : Decodable(q)} :
          /\ db_conn.db = InsertStatements(error.before, PAGE_SPEC(p),
                                           Position("tweet_url"))
          /\ insert_processed(error.before, PAGE_SPEC(p)).directly_collected_tweet
                # db_conn.db.directly_collected_tweet

\* ---- the ancillary tables of the posts
\* The posts a raw page carries, as payload or in includes.
PostsOf(raw_page) ==
    {raw_page.includes.tweets[i] : i \in 1..Len(raw_page.includes.tweets)}
        \cup IF raw_page.kind = "tweets"
             THEN {raw_page.data[i] : i \in 1..Len(raw_page.data)}
             ELSE {}

\* A column holds a value; ids are numbers and urls strings, and a column may
\* hold either.
Holds(column, value) == ToString(column) = ToString(value)

\* C27: every row of tweet_hashtag and of tweet_url in the open generation
\* is the row of a post of an input page: tweet_id is the id of the post,
\* retrieved_at the retrieval time of the page, and the hashtag, the url, one
\* of the post's.
C27_KeyedByPost ==
    /\ \A r \in db_conn.db.tweet_hashtag :
          \E p \in InputPages : \E t \in PostsOf(p) :
              /\ r.tweet_id = t.id
              /\ r.retrieved_at = p.twarc.retrieved_at
              /\ r.hashtag \in t.hashtags
    /\ \A r \in db_conn.db.tweet_url :
          \E p \in InputPages : \E t \in PostsOf(p) :
              /\ Holds(r.tweet_id, t.id)
              /\ r.retrieved_at = p.twarc.retrieved_at
              /\ \E u \in t.urls : Holds(r.url, u)

\* ---- the target between merges
\* C28: in every state of a run, whether it goes on, has returned or has
\* raised (the target is then what an interruption at that point leaves),
\* every row of tweet_hashtag in the target has a row of tweet_at_time with
\* its tweet_id and retrieved_at.
C28_NoDanglingRows ==
    \A r \in db_path.tweet_hashtag :
        \E t \in db_path.tweet_at_time :
            t.tweet_id = r.tweet_id /\ t.retrieved_at = r.retrieved_at

\* insert_pages raised out of a bundle of which the posts were written to the
\* open generation and the hashtags were not, after an earlier generation
\* with hashtags had been merged into the target.
C28_Witness ==
    /\ InsertRaised
    /\ db_path.tweet_hashtag # {}
    /\ db_conn.db.tweet_at_time # error.before.tweet_at_time
    /\ \E p \in {q \in InputPages : Decodable(q)} :
          /\ db_conn.db = InsertStatements(error.before, PAGE_SPEC(p),
                                           Position("tweet_at_time"))
          /\ RowsOf(p, "tweet_hashtag") # {}
          /\ ~(RowsOf(p, "tweet_hashtag") \subseteq db_path.tweet_hashtag)

\* ---- termination
\* The steps of the thread that runs insert_pages, but for the inserts of a
\* drained batch.
Writer ==
    \/ Start
    \/ \E raw_page \in source : NextPage(raw_page)
    \/ Wait
    \/ Seal
    \/ EndOfInput
    \/ JoinLast
    \/ FinalFlush
    \/ FinalFlushRaises

\* The writer's inserts of a drained batch: of one that cf.wait returned, or
\* of one that cf.as_completed yields.
WriterInserts ==
    \/ \E f \in done : \E at \in {<<0, 1>>} \cup ((1..stream_limit) \X (1..Len(Statements))) :
          InsertDone(f, at)
    \/ \E f \in futures : \E at \in {<<0, 1>>} \cup ((1..stream_limit) \X (1..Len(Statements))) :
          InsertCompleted(f, at)

\* The writer has a batch to insert: InsertDone or InsertCompleted can be
\* taken (the inserts either succeed or raise).
CanInsert ==
    \/ pc = "drain" /\ done # {}
    \/ pc = "final" /\ Finished(futures) # {}

\* A batch the pool has room for completes.
Workers == \E f \in futures : Complete(f)

\* A flush thread that was started ends, with the merge done or an exception.
Merges == \E t \in threads : FlushThread(t) \/ FlushThreadRaises(t)

\* insert_pages on a finite stream with a writer thread that goes on whenever
\* it can, a pool that completes every batch and flush threads that end.
SpecFair ==
    /\ Init
    /\ [][Next]_vars
    /\ WF_vars(Writer)
    /\ ([]<>(~CanInsert) \/ []<><<WriterInserts>>_vars)
    /\ WF_vars(Workers)
    /\ WF_vars(Merges)

\* C29: when the writer is scheduled, every batch submitted completes and
\* every flush thread ends, insert_pages returns or raises.
C29_Terminates == <>(pc \in {"returned", "raised"})

\* insert_pages returned after it had waited for completed batches in the
\* loop, sealed a generation and joined its flush thread.
C29_Witness ==
    /\ Returned
    /\ target # NoThread
    /\ Cardinality(merged \cup flush_failed) >= 2
    /\ submitted > n_cpus + 1

\* ---- the schema install, statement by statement
\* What the statements of SCHEMA_STATEMENTS create, in their order: the
\* tables, the views and the row of the version.
SchemaObjects ==
    <<"collection_context", "user_at_time", "directly_collected_user",
      "tweet_at_time", "directly_collected_tweet", "tweet_hashtag",
      "tweet_url", "place", "user_matching_ruleset",
      "user_ruleset_ngram_count", "metadata", "user_latest", "tweet_latest",
      "twittersphere_schema_version">>

\* A new database file: nothing has been created in it.
FreshStore == ("objects" :> {}) @@ NoStore

\* conn.execute(statement) for statement n, in the connection's transaction:
\* create ... if not exists, and insert or ignore for the version.
Execute(view, n) ==
    LET object == SchemaObjects[n]
    IN IF object = "twittersphere_schema_version"
       THEN [view EXCEPT !.metadata = InsertOrIgnore("metadata", @,
                                          <<VersionRow(CURRENT_SCHEMA_VERSION)>>)]
       ELSE [view EXCEPT !.objects = @ \cup {object},
                         !.installed = @ \/ object = "metadata"]

\* A connection in autocommit: every statement is in the file once executed.
CommittedAtOnce(store, view) == view

\* The file while the connection has executed statements after `begin` and
\* has not committed: as it was.
Committed(store, view) == store

\* How often ensure_db is called on the file.
MaxCalls == 3

InitInstall ==
    /\ db_path \in {[FreshStore EXCEPT !.journal_mode = j] : j \in JournalModes}
    /\ raw_pages = <<>>
    /\ pos = 0
    /\ n_cpus = 1
    /\ in_memory_max_db_size = Unbounded
    /\ batch = <<>>
    /\ batch_size = 0
    /\ futures = {}
    /\ submitted = 0
    /\ done = {}
    /\ db_conn = Connection(0, NoStore)
    /\ target = NoThread
    /\ threads = {}
    /\ source = {}
    /\ stream_limit = 0
    /\ insert_faults = FALSE
    /\ pc = "ensure_db"
    /\ run = 1
    /\ error = NoError
    /\ applied = [p \in Pages |-> 0]
    /\ merged = {}
    /\ flush_failed = {}
    /\ first_run = NoStore

\* db.py:28-41, 52-60: connect and read the stored version; the install is
\* next when there is none.
Connect ==
    /\ pc = "ensure_db"
    /\ IF SelectRaises(db_path) = "IndexError"
       THEN pc' = "raised" /\ error' = [kind |-> "IndexError", gen |-> 0, before |-> db_path]
       ELSE IF SchemaVersion(db_path) = 0
       THEN pc' = "pragma" /\ UNCHANGED error
       ELSE IF SchemaVersion(db_path) # CURRENT_SCHEMA_VERSION
       THEN pc' = "raised"
            /\ error' = [kind |-> "SchemaVersionError", gen |-> 0, before |-> db_path]
       ELSE pc' = "opened" /\ UNCHANGED error
    /\ UNCHANGED <<db_path, raw_pages, pos, params, batch, batch_size, futures,
                   submitted, done, db_conn, target, threads, run, applied, merged,
                   flush_failed, first_run>>

\* db.py:45-46: the journal mode is set, outside any transaction, and the
\* transaction begun.
Pragma ==
    /\ pc = "pragma"
    /\ db_path' = [db_path EXCEPT !.journal_mode = IF @ = "memory" THEN @ ELSE "wal"]
    /\ db_conn' = BeginTransaction(Connection(0, db_path'))
    /\ pos' = 0
    /\ pc' = "install"
    /\ UNCHANGED <<raw_pages, params, batch, batch_size, futures, submitted, done,
                   target, threads, run, error, applied, merged, flush_failed,
                   first_run>>

\* db.py:47-48: the next statement of SCHEMA_STATEMENTS.
ExecuteStatement ==
    /\ pc = "install"
    /\ pos < Len(SchemaObjects)
    /\ pos' = pos + 1
    /\ db_conn' = [db_conn EXCEPT !.db = Execute(@, pos')]
    /\ db_path' = Committed(db_path, db_conn'.db)
    /\ UNCHANGED <<raw_pages, params, batch, batch_size, futures, submitted, done,
                   target, threads, pc, run, error, applied, merged, flush_failed,
                   first_run>>

\* db.py:50, 60: commit, and the connection is returned.
Commit ==
    /\ pc = "install"
    /\ pos = Len(SchemaObjects)
    /\ db_path' = db_conn.db
    /\ db_conn' = CommitTransaction(db_conn)
    /\ pc' = "opened"
    /\ UNCHANGED <<raw_pages, pos, params, batch, batch_size, futures, submitted,
                   done, target, threads, run, error, applied, merged,
                   flush_failed, first_run>>

\* The process ends during the install: what the connection has not
\* committed is gone.  error keeps how many statements had been executed.
Interrupt ==
    /\ pc \in {"pragma", "install"}
    /\ error' = [kind |-> "interrupted", gen |-> pos, before |-> db_path]
    /\ db_conn' = Connection(0, NoStore)
    /\ pos' = 0
    /\ pc' = "closed"
    /\ UNCHANGED <<db_path, raw_pages, params, batch, batch_size, futures,
                   submitted, done, target, threads, run, applied, merged,
                   flush_failed, first_run>>

\* ensure_db is called on the file once more.
CallAgain ==
    /\ pc \in {"closed", "opened"}
    /\ run < MaxCalls
    /\ run' = run + 1
    /\ pc' = "ensure_db"
    /\ UNCHANGED <<db_path, raw_pages, pos, params, batch, batch_size, futures,
                   submitted, done, db_conn, target, threads, error, applied,
                   merged, flush_failed, first_run>>

NextInstall == Connect \/ Pragma \/ ExecuteStatement \/ Commit \/ Interrupt \/ CallAgain

SpecInstall == InitInstall /\ [][NextInstall]_vars

\* The objects of a complete schema.
AllObjects == {SchemaObjects[n] : n \in 1..Len(SchemaObjects)} \ {"twittersphere_schema_version"}

\* The store without the record of what was created in it.
Stored(store) == [field \in DOMAIN NoStore |-> store[field]]

\* C30: the file never holds a part of the schema: it has none of the
\* objects and no version, or all of them and the version, and what an
\* install leaves is what ensure_db leaves; the journal mode changes only
\* to WAL and only in a call that found no version and installs; a call
\* that finds the schema installed changes nothing and returns.
C30_SchemaInstall ==
    /\ [](\/ db_path.objects = {} /\ ~db_path.installed /\ Stamps(db_path) = {}
          \/ /\ db_path.objects = AllObjects
             /\ Stamps(db_path) = {CURRENT_SCHEMA_VERSION}
             /\ Stored(db_path) = ensure_db(NoStore).store)
    /\ [][db_path'.journal_mode # db_path.journal_mode
             => /\ pc = "pragma"
                /\ Stamps(db_path) = {}
                /\ db_path'.journal_mode = "wal"]_vars
    /\ [][(pc = "ensure_db" /\ db_path.objects = AllObjects)
             => pc' = "opened" /\ db_path' = db_path]_vars
    /\ [][pc = "opened" => db_path' = db_path]_vars

\* An install was interrupted after its last statement and before its
\* commit; the call after it installed the schema, and a further call has
\* returned.
C30_Witness ==
    /\ pc = "opened"
    /\ run = MaxCalls
    /\ error.kind = "interrupted"
    /\ error.gen = Len(SchemaObjects)
    /\ db_path.objects = AllObjects

\* ---- apply_user_rules_to_db when a statement raises
\* An except clause that leaves what the transaction has done so far.
RollbackNothing(store, view) == view

\* db_conn.execute("rollback"): the store is as it was at `begin`.
Rollback(store, view) == store

\* What the connection sees when the step for profile n raises: the rows of
\* the ruleset are deleted and the matches among the profiles before n are
\* inserted (n = 1: the select raises; n past the last profile: the commit).
ViewAt(db, include_rules, exclude_rules, ruleset_name, n) ==
    LET deleted == {r \in db.user_matching_ruleset : r.ruleset_name # ruleset_name}
        profiles == SetToSeq(user_latest(db))
        inserted == InsertMatching(deleted, profiles, include_rules, exclude_rules,
                                   ruleset_name, n - 1)
    IN [db EXCEPT !.user_matching_ruleset = inserted.rows]

\* filter_users when a statement after the delete raises: the except clause
\* rolls back and raises again, which ends the command.  db_conn keeps what the connection saw when
\* the statement raised, error the store as it was before the call.
filter_usersRaises(rule_file, ruleset_name, n) ==
    /\ pc = "filter_users"
    /\ LET opened == ensure_db(db_path)
           view == ViewAt(opened.store, rule_file.include, rule_file.exclude,
                          ruleset_name, n)
       IN /\ opened.raised = None
          /\ n \in 1..(Cardinality(user_latest(opened.store)) + 1)
          /\ db_conn' = Connection(0, view)
          /\ db_path' = Rollback(opened.store, view)
          /\ error' = [kind |-> "OperationalError", gen |-> n, before |-> db_path]
    /\ pc' = "raised"
    /\ UNCHANGED <<raw_pages, pos, params, batch, batch_size, futures, submitted,
                   done, target, threads, run, applied, merged, flush_failed,
                   first_run>>

NextRulesRaising ==
    \/ NextRules
    \/ \E rule_file \in RuleFiles, ruleset_name \in RulesetNames, n \in 1..(MaxProfiles + 1) :
          filter_usersRaises(rule_file, ruleset_name, n)

SpecRulesRaising == InitRules /\ [][NextRulesRaising]_vars

\* The last call of apply_user_rules_to_db raised.
RulesRaised == pc = "raised" /\ error.kind = "OperationalError"

\* C31: when apply_user_rules_to_db has raised out of a statement after the
\* delete, the store is as it was before the call: user_matching_ruleset
\* with the rows of the same name, and every other table.
C31_AllOrNothing == RulesRaised => db_path = error.before

\* The call raised after it had deleted a row of the name and inserted a new
\* one, and both are undone.
C31_Witness ==
    /\ RulesRaised
    /\ error.gen > 1
    /\ \E gone \in db_path.user_matching_ruleset \ db_conn.db.user_matching_ruleset :
          \E new \in db_conn.db.user_matching_ruleset \ db_path.user_matching_ruleset :
              new.ruleset_name = gone.ruleset_name
    /\ db_path.user_matching_ruleset = error.before.user_matching_ruleset

\* ---- the classification of a profile
ProfileFields == {"name", "description", "location"}

\* The rule occurs in the text: it has 1 to 3 tokens, and they are
\* successive tokens of the text once it is lower-cased and its stopwords are
\* removed.
Occurs(rule, text) ==
    LET tokens == tokenize(text)
    IN /\ Len(rule) \in 1..3
       /\ \E i \in 1..Len(tokens) :
             /\ i + Len(rule) - 1 <= Len(tokens)
             /\ \A k \in 1..Len(rule) : tokens[i + k - 1] = rule[k]

\* The rules found in a profile, each with the field it is a rule of.
Found(rules, profile) ==
    {fr \in UNION {{<<field, rule>> : rule \in RulesOf(rules, field)} : field \in ProfileFields} :
        Occurs(fr[2], profile[fr[1]])}

\* C32: for every profile stored and every rule file, classify_user_profile
\* reports a match exactly when more include rules are found in the name,
\* the description and the location than exclude rules, a rule being counted
\* once for each field it is a rule of and found in; with no include rule
\* found it reports no match.
C32_Classification ==
    \A profile \in db_path.user_at_time, rule_file \in RuleFiles :
        LET matched == classify_user_profile(profile, rule_file.include, rule_file.exclude)
            included == Found(rule_file.include, profile)
            excluded == Found(rule_file.exclude, profile)
        IN /\ matched <=> Cardinality(included) > Cardinality(excluded)
           /\ included = {} => ~matched

\* Rules were applied and a user stored as matching; of the profiles stored
\* one has as many exclude rules found as include rules, and at least one,
\* and one has more include rules found than exclude rules, of which it has
\* one.
C32_Witness ==
    /\ pc = "filter_users"
    /\ db_path.user_matching_ruleset # {}
    /\ \E profile \in db_path.user_at_time, rule_file \in RuleFiles :
          /\ Found(rule_file.exclude, profile) # {}
          /\ Cardinality(Found(rule_file.include, profile))
                = Cardinality(Found(rule_file.exclude, profile))
    /\ \E profile \in db_path.user_at_time, rule_file \in RuleFiles :
          /\ Found(rule_file.exclude, profile) # {}
          /\ Cardinality(Found(rule_file.include, profile))
                > Cardinality(Found(rule_file.exclude, profile))

\* ---- deduplicate_rules
\* The sub-rules the code looks up for a rule: for a rule of two tokens its
\* two tokens, for one of three its three tokens and its two pairs.
Checked(rule) ==
    IF Len(rule) = 2
    THEN {SubSeq(rule, 1, 1), SubSeq(rule, 2, 2)}
    ELSE IF Len(rule) = 3
    THEN {SubSeq(rule, 1, 1), SubSeq(rule, 2, 2), SubSeq(rule, 3, 3),
          SubSeq(rule, 1, 2), SubSeq(rule, 2, 3)}
    ELSE {}

\* A deduplication that looks up only the first and the last token of a rule.
deduplicate_rulesEnds(rules) ==
    LET ends(rule) == IF Len(rule) \in {2, 3}
                      THEN {SubSeq(rule, 1, 1), SubSeq(rule, Len(rule), Len(rule))}
                      ELSE {}
        why_redundant == [s \in {t \in rules : \E rule \in rules : t \in ends(rule)} |->
                             {rule \in rules : s \in ends(rule)}]
        redundant_rules == UNION {why_redundant[s] : s \in DOMAIN why_redundant}
    IN <<rules \ redundant_rules, why_redundant>>

\* deduplicate_rules: why_redundant gives for every rule that is a sub-rule
\* of others those others; they are removed.
deduplicate_rules(rules) ==
    LET why_redundant == [s \in {t \in rules : \E rule \in rules : t \in Checked(rule)} |->
                             {rule \in rules : s \in Checked(rule)}]
        redundant_rules == UNION {why_redundant[s] : s \in DOMAIN why_redundant}
    IN <<rules \ redundant_rules, why_redundant>>

\* The rules a rule file can have for a field: one to three of two tokens.
RuleTokens == {"sydney", "uni"}

RuleUniverse ==
    UNION {[1..n -> RuleTokens] : n \in 1..3}

\* How many rules a rule file has for a field.
MaxRules == 4

InitDeduplicate ==
    /\ db_path = NoStore
    /\ raw_pages = <<>>
    /\ pos = 0
    /\ n_cpus = 1
    /\ in_memory_max_db_size = Unbounded
    /\ batch = <<>>
    /\ batch_size = 0
    /\ futures = {}
    /\ submitted = 0
    /\ done = {}
    /\ db_conn = Connection(0, NoStore)
    /\ target = NoThread
    /\ threads = {}
    /\ source \in {rules \in SUBSET RuleUniverse : Cardinality(rules) <= MaxRules}
    /\ stream_limit = 0
    /\ insert_faults = FALSE
    /\ pc = "load_rule_files"
    /\ run = 1
    /\ error = NoError
    /\ applied = [p \in Pages |-> 0]
    /\ merged = {}
    /\ flush_failed = {}
    /\ first_run = NoStore

\* load_rule_files, for the rules of one field: `source` is the set read from
\* the rule files, `done` what deduplicate_rules keeps of it.
DeduplicateField ==
    /\ pc = "load_rule_files"
    /\ done' = deduplicate_rules(source)[1]
    /\ pc' = "loaded"
    /\ UNCHANGED <<db_path, raw_pages, pos, params, batch, batch_size, futures,
                   submitted, db_conn, target, threads, run, error, applied, merged,
                   flush_failed, first_run>>

SpecDeduplicate == InitDeduplicate /\ [][DeduplicateField]_vars

\* The runs of successive tokens of a rule that are shorter than the rule.
ProperSubRules(rule) ==
    {SubSeq(rule, i, j) : <<i, j>> \in {ij \in (1..Len(rule)) \X (1..Len(rule)) :
                                          ij[1] <= ij[2] /\ ij[2] - ij[1] + 1 < Len(rule)}}

\* The texts the rules are matched against: up to three tokens.
RuleTexts == {<<>>} \cup RuleUniverse

\* C33: of the rules of a field exactly those are removed that have a
\* shorter run of their successive tokens among the rules given; no rule
\* kept has such a run among the rules kept; and every text in which a rule
\* given occurs has a rule kept occurring in it.
C33_Deduplicated ==
    pc = "loaded" =>
        /\ done = {rule \in source : ProperSubRules(rule) \cap source = {}}
        /\ \A rule \in done : ProperSubRules(rule) \cap done = {}
        /\ \A text \in RuleTexts :
              (ngrams(text, 3) \cap source # {}) => (ngrams(text, 3) \cap done # {})

\* A rule of three tokens was removed for its middle token alone, a rule of
\* two tokens was kept, and the rule that is the middle token.
C33_Witness ==
    /\ pc = "loaded"
    /\ \E rule \in source \ done :
          /\ Len(rule) = 3
          /\ ProperSubRules(rule) \cap source = {SubSeq(rule, 2, 2)}
    /\ \E rule \in done : Len(rule) = 2
    /\ \E rule \in done : Len(rule) = 1

\* ---------------------------------------------------------------------------
\* The transaction of a staging generation (db.py:116, 147-161, 170-175).

\* Where the writer inserts into its generation, or is about to.
Inserting == pc \in {"loop", "wait", "drain", "final"}

\* The connections of the staging generations that have a transaction open
\* which flush_db did not begin itself.
OpenTransactions ==
    {t.gen : t \in {u \in threads : u.in_transaction}}
        \cup (IF db_conn.in_transaction THEN {db_conn.gen} ELSE {})

\* C34: a staging generation is given to flush_db only once its transaction is
\* committed: a flush thread was started on a connection without an open
\* transaction, and so is the last flush on the writer's thread; while the
\* writer inserts, its generation, and no other, has the transaction the
\* writer began.
C34_CommittedBeforeMerge ==
    /\ \A t \in threads : ~t.in_transaction
    /\ pc = "flush" => ~db_conn.in_transaction
    /\ Inserting => /\ GenState(db_conn.gen) = "OPEN"
                    /\ OpenTransactions = {db_conn.gen}

\* The last generation is about to be flushed by the writer, committed, after
\* an earlier one with rows was given, committed, to a flush thread.
C34_Witness ==
    /\ pc = "flush"
    /\ ~db_conn.in_transaction
    /\ db_conn.gen > 1
    /\ db_conn.db.tweet_at_time # {}
    /\ \E t \in threads : t.gen < db_conn.gen /\ ~t.in_transaction

====
